---- MODULE Spec2Model ----
(***************************************************************************)
(* A* benchmark of src/main.cpp: main() reads every graph file of the      *)
(* folder, and for each graph runs the A* search NUM_RUNS times, adds up   *)
(* nodesExpanded and steps, keeps the path cost of the first run and       *)
(* prints the averages.                                                    *)
(*                                                                         *)
(* Numbers.  The program computes in double.  The model takes coordinates  *)
(* that are integers and weights that are multiples of 1/Scale, and keeps  *)
(* every cost g as the integer g*Scale.  A heuristic value is the square   *)
(* root of an integer, so f = g + h is kept exactly as the pair            *)
(* [a |-> g*Scale, s |-> Scale^2*(dx^2+dy^2)], which stands for a+sqrt(s), *)
(* and f values are compared exactly (FGreater).                           *)
(*                                                                         *)
(* Files.  A graph file is the sequence of the numerals after its name     *)
(* line, each a numeral of the type read at its place.  An extraction past *)
(* the end of the file fails and leaves its variable as it was: a vector   *)
(* element keeps its 0, an int or double never written is indeterminate.   *)
(* Reading an indeterminate value is undefined and any value can come of   *)
(* it.  The model follows the program for the values of Indeterminate      *)
(* (and, for u, v, w of the edge loop, for the values the previous pass    *)
(* left, which is what builds of the program read); for every other value  *)
(* the step is ReadsIndeterminate, which ends in one of UndefinedOutcomes: *)
(* the program is killed by a signal (pc = "crashed"), ends in abort on an *)
(* exception nothing catches (pc = "aborted"), or goes on with values the  *)
(* model does not hold (pc = "undefined").  An access outside a vector is  *)
(* undefined and ends in the same way.  A negative size given to resize    *)
(* throws std::length_error, and fs::directory_iterator on a folder that   *)
(* is not there throws std::filesystem::filesystem_error: pc = "aborted".  *)
(*                                                                         *)
(* Specifications.  SpecRead is main reading the folder (lines 83-96).     *)
(* Spec and SpecTie start where main has read the folder (line 97), with   *)
(* the vector graphs holding the GraphData of graph files; what they check *)
(* of the search does not rest on how a file is read.                      *)
(***************************************************************************)
EXTENDS Integers, Sequences, FiniteSets

\* ------------------------------------------------------------------ bounds
MaxCoord == 1
RunsChecked == 2
MaxIndeterminate == 1
MaxEntries == 2
MaxIsolated == 15

\* ------------------------------------------------------- program constants
NUM_RUNS == 100
Scale == 2
Infinity == 1000000

VARIABLES
    tie,                \* how this build's priority_queue orders equal f
    folder,             \* whether fs::directory_iterator opens the folder graphs
    entries,            \* the .txt entries of the folder not yet visited
    reading,            \* readGraphFromFile's file, graph, numEdges, i, u, v, w
    graphs,             \* vector<GraphData> graphs
    gi,                 \* position of the for loop over graphs (1-based)
    pc,                 \* position in main / runAStar
    run,                \* int run
    totalNodesExpanded, \* int totalNodesExpanded
    totalSteps,         \* int totalSteps
    pathCost,           \* double pathCost (times Scale when it is a distance)
    open,               \* the priority_queue's underlying vector
    dist,               \* vector<double> dist
    closed,             \* vector<bool> closed
    nodesExpanded,      \* int nodesExpanded
    steps,              \* int steps
    cur,                \* State cur
    ni,                 \* position of the range-for over the adjacency list
    out,                \* what was printed, one record per graph
    pushed,             \* history: every State pushed in this run, in order
    expandedSeq         \* history: cur of every non-stale pop of this run

vars == <<tie, folder, entries, reading, graphs, gi, pc, run, totalNodesExpanded, totalSteps, pathCost,
          open, dist, closed, nodesExpanded, steps, cur, ni, out, pushed,
          expandedSeq>>

\* ---------------------------------------------------------------- numbers
\* the value a + sqrt(s) of a double f, kept exactly
FVal(g, h) == [a |-> g, s |-> h]

\* x.f > y.f, for x = a + sqrt(s): the comparison of two doubles
FGreater(x, y) ==
    LET c == y.a - x.a
        m == x.s + y.s - c * c
    IN  IF c < 0
        THEN x.s >= y.s \/ m < 0 \/ m * m < 4 * x.s * y.s
        ELSE x.s > y.s /\ m > 0 /\ m * m > 4 * x.s * y.s

\* mutant: the comparison of a max-heap, a.f < b.f
CompareStateReversed(a, b) == FGreater(b.f, a.f)

\* CompareState: a is ordered after b (b has the higher priority)
CompareState(a, b) == FGreater(a.f, b.f)

\* --------------------------------------------------------- the graph file
Nodes(n) == 0 .. (n - 1)

\* the values of an int never written that the model follows; any other
\* value is the step ReadsIndeterminate
Indeterminate == (-1) .. MaxIndeterminate

\* the same for a double, in units of 1/Scale
IndeterminateDouble == (-1) .. MaxIndeterminate

\* what file >> x leaves in x for the k-th numeral: the numeral, or one of
\* `was`, the values x had, when the file has ended
Extracted(file, k, was) == IF k <= Len(file) THEN {file[k]} ELSE was

\* what u, v, w (j = 1, 2, 3) hold before a pass of the edge loop: they are
\* declared in the body of the loop and so never written, and builds of the
\* program read in them what the previous pass left, last
Left(last, j) ==
    (IF j = 3 THEN IndeterminateDouble ELSE Indeterminate)
        \cup (IF last # <<>> THEN {last[j]} ELSE {})

\* what file >> x leaves in a vector element, which resize set to 0
ExtractedOr0(file, k) == IF k <= Len(file) THEN file[k] ELSE 0

\* the GraphData a file that cannot be opened returns: nothing was written
Unwritten(n, s, g) ==
    [numNodes |-> n, adjacencyList |-> <<>>, coordinates |-> <<>>,
     startNode |-> s, goalNode |-> g]

\* the GraphData after the header was read: n nodes, no edges yet
Header(file, n, s, g) ==
    [numNodes      |-> n,
     adjacencyList |-> [x \in Nodes(n) |-> <<>>],
     coordinates   |-> [x \in Nodes(n) |->
                          <<ExtractedOr0(file, 2 + 2 * x), ExtractedOr0(file, 3 + 2 * x)>>],
     startNode     |-> s,
     goalNode      |-> g]

\* one edge line: both directions are appended
AddEdge(adj, u, v, w) ==
    LET a1 == [adj EXCEPT ![u] = Append(@, <<v, w>>)]
    IN  [a1 EXCEPT ![v] = Append(@, <<u, w>>)]

\* the edge lines from the i-th on, one after the other
RECURSIVE AddEdges(_, _, _)
AddEdges(adj, edges, i) ==
    IF i > Len(edges) THEN adj
    ELSE AddEdges(AddEdge(adj, edges[i][1], edges[i][2], edges[i][3]), edges, i + 1)

\* the GraphData of d.n nodes at d.coords, start d.s, goal d.g, with the edge
\* lines d.edges, whose ends are nodes: what main holds of the file of d
GraphData(d) ==
    [numNodes      |-> d.n,
     adjacencyList |-> AddEdges([x \in Nodes(d.n) |-> <<>>], d.edges, 1),
     coordinates   |-> d.coords,
     startNode     |-> d.s,
     goalNode      |-> d.g]

\* the place of the first numeral of edge line i (from 0) after n nodes
EdgeAt(n, i) == 5 + 2 * n + 3 * i

\* the lambda heuristic of main: the Euclidean distance of node to the goal,
\* returned as the radicand of Scale * sqrt(dx*dx + dy*dy)
heuristic(graph, node) ==
    LET dx == graph.coordinates[node][1] - graph.coordinates[graph.goalNode][1]
        dy == graph.coordinates[node][2] - graph.coordinates[graph.goalNode][2]
    IN  Scale * Scale * (dx * dx + dy * dy)

\* ------------------------------------------- std::priority_queue, as a heap
\* Indices are those of the C++ vector (from 0); v[i + 1] is element i.
RECURSIVE PushHeapLoop(_, _, _, _)
\* std::__push_heap: the parents ordered after value move down into the hole
PushHeapLoop(v, holeIndex, topIndex, value) ==
    LET parent == (holeIndex - 1) \div 2
    IN  IF holeIndex > topIndex /\ CompareState(v[parent + 1], value)
        THEN PushHeapLoop([v EXCEPT ![holeIndex + 1] = v[parent + 1]],
                          parent, topIndex, value)
        ELSE [v EXCEPT ![holeIndex + 1] = value]

RECURSIVE AdjustHeapLoop(_, _, _)
\* std::__adjust_heap, first loop: the hole moves down to the child that is
\* not ordered after its sibling; yields <<vector, holeIndex>>
AdjustHeapLoop(v, holeIndex, len) ==
    IF holeIndex < (len - 1) \div 2
    THEN LET right == 2 * (holeIndex + 1)
             child == IF CompareState(v[right + 1], v[right]) THEN right - 1 ELSE right
         IN  AdjustHeapLoop([v EXCEPT ![holeIndex + 1] = v[child + 1]], child, len)
    ELSE <<v, holeIndex>>

\* std::__adjust_heap(first, 0, len, value)
AdjustHeap(v, len, value) ==
    LET d == AdjustHeapLoop(v, 0, len)
        w == d[1]
        h == d[2]
        e == IF len % 2 = 0 /\ h = (len - 2) \div 2
             THEN <<[w EXCEPT ![h + 1] = w[2 * (h + 1)]], 2 * (h + 1) - 1>>
             ELSE <<w, h>>
    IN  PushHeapLoop(e[1], e[2], 0, value)

\* open.push(x) of the heap: push_back, then std::push_heap
HeapPush(v, x) == PushHeapLoop(Append(v, x), Len(v), 0, x)

\* open.pop() of the heap: std::pop_heap, then pop_back
HeapPop(v) ==
    IF Len(v) <= 1 THEN <<>>
    ELSE AdjustHeap(SubSeq(v, 1, Len(v) - 1), Len(v) - 1, v[Len(v)])

\* open.top() of the heap
HeapTop(v) == v[1]

\* mutant: a queue that yields any element
IsTopAny(v, i) == TRUE

\* what the C++ standard promises of top(): no element has a smaller f
IsTop(v, i) == \A j \in 1 .. Len(v) : ~CompareState(v[i], v[j])

RemoveAt(v, i) == SubSeq(v, 1, i - 1) \o SubSeq(v, i + 1, Len(v))

\* open.push(x)
Push(v, x) == IF tie = "heap" THEN HeapPush(v, x) ELSE Append(v, x)

\* ------------------------------------------------------------------- main
graph == graphs[gi]
N     == graph.numNodes
start == graph.startNode
goal  == graph.goalNode

\* start and goal are indices of coordinates and start is one of dist
InRange ==
    /\ {start, goal} \subseteq DOMAIN graph.coordinates
    /\ start \in Nodes(N)

NoSearch ==
    /\ open = <<>> /\ dist = <<>> /\ closed = <<>> /\ cur = <<>>
    /\ nodesExpanded = 0 /\ steps = 0 /\ ni = 0
    /\ pushed = <<>> /\ expandedSeq = <<>>

\* main has visited all but n entries of the folder, and graphs holds gs
InitOf(n, gs, t) ==
    /\ tie = t
    /\ folder = TRUE
    /\ entries = n /\ reading = <<>>
    /\ graphs = gs
    /\ gi = 1
    /\ pc = IF n = 0 THEN "main" ELSE "read"
    /\ run = 0 /\ totalNodesExpanded = 0 /\ totalSteps = 0 /\ pathCost = 0
    /\ out = <<>>
    /\ NoSearch

\* how the program ends after an access outside a vector or the reading of
\* an indeterminate value
UndefinedOutcomes == {"crashed", "aborted", "undefined"}

\* the variables of the search, of the harness and of the output
afterReading ==
    <<gi, run, totalNodesExpanded, totalSteps, pathCost, open, dist, closed,
      nodesExpanded, steps, cur, ni, out, pushed, expandedSeq>>

\* if (graph.numNodes > 0) graphs.push_back(graph), and the next entry of the
\* folder
KeepGraph(g) ==
    /\ graphs' = IF g.numNodes > 0 THEN Append(graphs, g) ELSE graphs
    /\ entries' = entries - 1
    /\ reading' = <<>>
    /\ pc' = IF entries > 1 THEN "read" ELSE "main"

\* ----------------------------------------------------------------- inputs
\* the file written for d: numNodes, the coordinates, start and goal,
\* numEdges, the edge lines
File(d) ==
    <<d.n>>
        \o [k \in 1 .. 2 * d.n |-> d.coords[(k - 1) \div 2][((k - 1) % 2) + 1]]
        \o <<d.s, d.g, Len(d.edges)>>
        \o [k \in 1 .. 3 * Len(d.edges) |->
               d.edges[((k - 1) \div 3) + 1][((k - 1) % 3) + 1]]

\* the pairs u < v of n nodes, in lexicographic order
RECURSIVE PairsFrom(_, _, _)
PairsFrom(n, u, v) ==
    IF u >= n - 1 THEN <<>>
    ELSE IF v >= n THEN PairsFrom(n, u + 1, u + 2)
    ELSE <<<<u, v>>>> \o PairsFrom(n, u, v + 1)

Pairs(n) == PairsFrom(n, 0, 1)

Reverse(q) == [i \in 1 .. Len(q) |-> q[Len(q) + 1 - i]]

\* the edge lines of a file: the pairs of `present`, each with its weight of
\* choice, in the order of pairs or reversed
EdgeLines(pairs, present, choice, rev) ==
    LET idx  == SelectSeq([i \in 1 .. Len(pairs) |-> i], LAMBDA i : i \in present)
        kept == [k \in 1 .. Len(idx) |-> <<pairs[idx[k]][1], pairs[idx[k]][2], choice[idx[k]]>>]
    IN  IF rev THEN Reverse(kept) ELSE kept

\* the grid points on and below the diagonal: one point for every distance
\* to the origin
Points == {p \in (0 .. MaxCoord) \X (0 .. MaxCoord) : p[2] <= p[1]}

\* the scenarios of the specification
Triangle ==
    [n |-> 3, coords |-> [n \in 0 .. 2 |-> <<<<0, 0>>, <<1, 0>>, <<1, 1>>>>[n + 1]],
     s |-> 0, g |-> 2, edges |-> <<<<0, 1, 2>>, <<1, 2, 2>>, <<0, 2, 5>>>>]

DisconnectedPair ==
    [n |-> 2, coords |-> [n \in 0 .. 1 |-> <<<<0, 0>>, <<1, 0>>>>[n + 1]],
     s |-> 0, g |-> 1, edges |-> <<>>]

SingleNode ==
    [n |-> 1, coords |-> [n \in 0 .. 0 |-> <<0, 0>>], s |-> 0, g |-> 0, edges |-> <<>>]

\* an admissible heuristic that is not consistent: node 1 is 3.0 away from
\* the goal 5 and has an edge of 0.5 to node 2, which lies on the goal; edges
\* 0-1 1.0, 1-2 0.5, 2-5 3.0, 0-3 1.0, 3-2 1.5, 0-4 5.0
Shortcut ==
    [n |-> 6, coords |-> [n \in 0 .. 5 |-> IF n = 1 THEN <<3, 0>> ELSE <<0, 0>>],
     s |-> 0, g |-> 5,
     edges |-> <<<<0, 1, 2>>, <<1, 2, 1>>, <<2, 5, 6>>, <<0, 3, 2>>, <<3, 2, 3>>,
                 <<0, 4, 10>>>>]

Scenarios == {Triangle, DisconnectedPair, SingleNode}

\* a file whose node count is 0: main drops it
Empty == [n |-> 0, coords |-> <<>>, s |-> 0, g |-> 0, edges |-> <<>>]

\* a file of numNodes = -1
NegativeNodes == [Empty EXCEPT !.n = -1]

\* two nodes joined by an edge of 1.0
Pair ==
    [n |-> 2, coords |-> [n \in 0 .. 1 |-> <<n, 0>>], s |-> 0, g |-> 1,
     edges |-> <<<<0, 1, 2>>>>]

\* the pair with start and goal that are nodes or are not
Misdirected == {[Pair EXCEPT !.s = s, !.g = g] : s \in (-1) .. 2, g \in (-1) .. 2}

\* n nodes at the origin without an edge, start and goal node 0: the graph
\* builds of the program make of a file without a numeral (n indeterminate)
Isolated(n) ==
    [n |-> n, coords |-> [x \in Nodes(n) |-> <<0, 0>>], s |-> 0, g |-> 0,
     edges |-> <<>>]

\* the same with every node at the origin: the heuristic is 0 everywhere
ZeroOf(d) == [d EXCEPT !.coords = [x \in DOMAIN @ |-> <<0, 0>>]]

\* the first k numerals of a file
Truncated(file, k) == SubSeq(file, 1, k)

\* a file with its numeral k replaced by x
Replaced(file, k, x) == [file EXCEPT ![k] = x]

\* the files of SpecRead: the scenarios, a file main drops, and files that
\* are not the file of a graph, or not of the graph meant: of no numeral, cut
\* short anywhere, numNodes negative, numEdges less than the edge lines or
\* more, a start, a goal or an end of an edge changed, to a node or to none
GraphFiles ==
    {File(d) : d \in Scenarios \cup {Empty, NegativeNodes, Pair}}
        \cup {Truncated(File(Pair), k) : k \in 0 .. (Len(File(Pair)) - 1)}
        \cup {Replaced(File(Pair), k, x) : k \in 6 .. 10, x \in {-1, 0, 2}}

\* two branches from the start, 0-2-4 and 0-3-1, the goal the end of the first
BranchPairs == <<<<0, 2>>, <<0, 3>>, <<1, 3>>, <<2, 4>>>>

\* four nodes, every pair but start and goal: 0-1, 0-2, 1-2, 1-3, 2-3
DiamondPairs == SelectSeq(Pairs(4), LAMBDA p : p # <<0, 3>>)

\* the graphs of a folder of one file, alone or after its copy with the zero
\* heuristic
Folder(d, withZero) ==
    IF withZero THEN <<GraphData(ZeroOf(d)), GraphData(d)>> ELSE <<GraphData(d)>>

\* main has read a folder of one graph file of n nodes: the goal, of goals,
\* at the origin, the other nodes on pts or at the origin, start node 0, the
\* pairs of a subset of `pairs` joined by an edge of a weight of ws
InitGraphs(n, pts, pairs, ws, goals, revs, withZero, t) ==
    \E g \in goals, rev \in revs :
        \E present \in SUBSET (1 .. Len(pairs)) :
            \E ch \in [present -> ws] :
                \E c \in [Nodes(n) -> pts \cup {<<0, 0>>}] :
                    /\ c[g] = <<0, 0>>
                    /\ InitOf(0, Folder([n |-> n, coords |-> c, s |-> 0, g |-> g,
                                         edges |-> EdgeLines(pairs, present, ch, rev)],
                                        withZero), t)

\* ------------------------------------------------- main, the folder loop
\* fs::directory_iterator(graphsFolder) on a folder it opens: the first .txt
\* entry, or the end of the loop when the folder has none
OpenFolder ==
    /\ pc = "begin" /\ folder
    /\ pc' = IF entries > 0 THEN "read" ELSE "main"
    /\ UNCHANGED <<tie, folder, entries, reading, graphs, afterReading>>

\* fs::directory_iterator(graphsFolder) on a folder that is not there or
\* cannot be opened: std::filesystem::filesystem_error, which nothing
\* catches
FolderThrows ==
    /\ pc = "begin" /\ ~folder
    /\ pc' = "aborted"
    /\ UNCHANGED <<tie, folder, entries, reading, graphs, afterReading>>

\* ------------------------------------------------------ readGraphFromFile
\* readGraphFromFile on an entry that cannot be opened: the GraphData is
\* returned as it was declared, and main reads its numNodes
OpenFails ==
    /\ pc = "read"
    /\ \E n \in Indeterminate, s \in Indeterminate, g \in Indeterminate :
          KeepGraph(Unwritten(n, s, g))
    /\ UNCHANGED <<tie, folder, afterReading>>

\* readGraphFromFile on `file` up to the loop over the edges: the name line,
\* numNodes, the two resize, the coordinates, start and goal, numEdges
ReadHeader(file) ==
    /\ pc = "read"
    /\ \E n \in Extracted(file, 1, Indeterminate) :
          /\ n >= 0
          /\ \E s \in Extracted(file, 2 + 2 * n, Indeterminate),
                g \in Extracted(file, 3 + 2 * n, Indeterminate),
                e \in Extracted(file, 4 + 2 * n, Indeterminate) :
                reading' = [file |-> file, graph |-> Header(file, n, s, g),
                            numEdges |-> e, i |-> 0, last |-> <<>>]
    /\ pc' = "edges"
    /\ UNCHANGED <<tie, folder, entries, graphs, afterReading>>

\* graph.adjacencyList.resize(graph.numNodes) with numNodes < 0: the size
\* converts to one beyond max_size, std::length_error
ResizeThrows(file) ==
    /\ pc = "read"
    /\ \E n \in Extracted(file, 1, Indeterminate) : n < 0
    /\ pc' = "aborted"
    /\ UNCHANGED <<tie, folder, entries, reading, graphs, afterReading>>

\* one pass of the loop over the edges, u and v being nodes
ReadEdge ==
    /\ pc = "edges" /\ reading.i < reading.numEdges
    /\ LET at == EdgeAt(reading.graph.numNodes, reading.i)
       IN  \E u \in Extracted(reading.file, at, Left(reading.last, 1)),
              v \in Extracted(reading.file, at + 1, Left(reading.last, 2)),
              w \in Extracted(reading.file, at + 2, Left(reading.last, 3)) :
              /\ {u, v} \subseteq Nodes(reading.graph.numNodes)
              /\ reading' = [reading EXCEPT
                                !.graph.adjacencyList = AddEdge(@, u, v, w),
                                !.i = @ + 1,
                                !.last = <<u, v, w>>]
    /\ UNCHANGED <<tie, folder, entries, graphs, pc, afterReading>>

\* one pass of the loop over the edges, u or v not being a node:
\* adjacencyList[u] or adjacencyList[v] is outside the vector
EdgeOutOfRange ==
    /\ pc = "edges" /\ reading.i < reading.numEdges
    /\ LET at == EdgeAt(reading.graph.numNodes, reading.i)
       IN  \E u \in Extracted(reading.file, at, Left(reading.last, 1)),
              v \in Extracted(reading.file, at + 1, Left(reading.last, 2)) :
              ~({u, v} \subseteq Nodes(reading.graph.numNodes))
    /\ pc' \in UndefinedOutcomes
    /\ UNCHANGED <<tie, folder, entries, reading, graphs, afterReading>>

\* a step of reading that reads an int or a double never written as a value
\* outside those the model follows: numNodes of an entry that is not opened
\* (line 91) or of a file without a numeral (line 55), numEdges of a file
\* that ends before it (line 71), u, v or w of a file that has ended (lines
\* 75-76).  At "read" the entry visited next is an input and may be one of
\* these.  start and goal never written are read by main after the folder
\* (lines 110-111); the step is taken where they are left unwritten
ReadsIndeterminate ==
    /\ \/ pc = "read"
       \/ /\ pc = "edges" /\ reading.i < reading.numEdges
          /\ Len(reading.file) < EdgeAt(reading.graph.numNodes, reading.i) + 2
    /\ pc' \in UndefinedOutcomes
    /\ UNCHANGED <<tie, folder, entries, reading, graphs, afterReading>>

\* the loop over the edges is over: the graph is returned to main
ReturnGraph ==
    /\ pc = "edges" /\ reading.i >= reading.numEdges
    /\ KeepGraph(reading.graph)
    /\ UNCHANGED <<tie, folder, afterReading>>

\* ----------------------------------------------------- main, after reading
\* if (graphs.empty()) { ...; return 0; }
NoGraphs ==
    /\ pc = "main" /\ graphs = <<>>
    /\ pc' = "done"
    /\ UNCHANGED <<tie, folder, entries, reading, graphs, gi, run, totalNodesExpanded, totalSteps, pathCost,
                   open, dist, closed, nodesExpanded, steps, cur, ni, out, pushed,
                   expandedSeq>>

\* for (const auto& graph : graphs): the next graph, and the head of runAStar
ProcessGraph ==
    /\ pc \in {"main", "graph"} /\ gi <= Len(graphs)
    /\ totalNodesExpanded' = 0 /\ totalSteps' = 0 /\ pathCost' = 0 /\ run' = 0
    /\ pc' = "run"
    /\ UNCHANGED <<tie, folder, entries, reading, graphs, gi, open, dist, closed, nodesExpanded, steps, cur,
                   ni, out, pushed, expandedSeq>>

\* the loop over the graphs is over: return 0
Finish ==
    /\ pc = "graph" /\ gi > Len(graphs)
    /\ pc' = "done"
    /\ UNCHANGED <<tie, folder, entries, reading, graphs, gi, run, totalNodesExpanded, totalSteps, pathCost,
                   open, dist, closed, nodesExpanded, steps, cur, ni, out, pushed,
                   expandedSeq>>

\* mutant: f is the heuristic alone, newF = heuristic(nbr)
MakeStateGreedy(node, g) == [node |-> node, g |-> g, f |-> FVal(0, heuristic(graph, node))]

\* the State pushed for node at cost g
MakeState(node, g) == [node |-> node, g |-> g, f |-> FVal(g, heuristic(graph, node))]

\* the first entry of the open set
StartState == MakeState(start, 0)

\* mutant: dist declared outside the loop over the runs, never reset
InitDistKept ==
    IF run = 0 THEN [[n \in Nodes(N) |-> Infinity] EXCEPT ![start] = 0]
    ELSE [dist EXCEPT ![start] = 0]

\* vector<double> dist(N, infinity); dist[start] = 0.0;
InitDist == [[n \in Nodes(N) |-> Infinity] EXCEPT ![start] = 0]

\* for (run ...; run < limit; ...): the fresh search state of one run
BeginRun(limit) ==
    /\ pc = "run" /\ run < limit
    /\ InRange
    /\ dist' = InitDist
    /\ open' = Push(<<>>, StartState)
    /\ closed' = [n \in Nodes(N) |-> FALSE]
    /\ nodesExpanded' = 0 /\ steps' = 0
    /\ cur' = <<>> /\ ni' = 0
    /\ pushed' = <<StartState>> /\ expandedSeq' = <<>>
    /\ pc' = "loop"
    /\ UNCHANGED <<tie, folder, entries, reading, graphs, gi, run, totalNodesExpanded, totalSteps, pathCost, out>>

\* the head of a run on a graph whose start or goal is not a node, or that
\* has no coordinates: dist[start], coords[start] or coords[goal] is outside
\* the vector
StartOutOfRange(limit) ==
    /\ pc = "run" /\ run < limit
    /\ ~InRange
    /\ pc' \in UndefinedOutcomes
    /\ UNCHANGED <<tie, folder, entries, reading, graphs, afterReading>>

\* mutant: no stale test
StaleNever(c) == FALSE

\* the stale test: cur.g > dist[cur.node]
Stale(c) == c.g > dist[c.node]

\* mutant: no goal test
IsGoalNever(c) == FALSE

\* the goal test: cur.node == goal
IsGoal(c) == c.node = goal

\* one pass of the while loop up to the neighbour loop, for the popped State c
\* and the queue rest left by pop()
Pop(c, rest) ==
    /\ cur' = c
    /\ open' = rest
    /\ steps' = steps + 1
    /\ IF Stale(c)
       THEN /\ pc' = "loop"
            /\ UNCHANGED <<nodesExpanded, closed, ni, expandedSeq>>
       ELSE /\ nodesExpanded' = nodesExpanded + 1
            /\ expandedSeq' = Append(expandedSeq, c)
            /\ IF IsGoal(c)
               THEN /\ pc' = "endrun"
                    /\ UNCHANGED <<closed, ni>>
               ELSE /\ closed' = [closed EXCEPT ![c.node] = TRUE]
                    /\ ni' = 1
                    /\ pc' = IF graph.adjacencyList[c.node] = <<>> THEN "loop" ELSE "nbrs"
    /\ UNCHANGED <<tie, folder, entries, reading, graphs, gi, run, totalNodesExpanded, totalSteps, pathCost,
                   dist, out, pushed>>

\* while (!open.empty()) { cur = open.top(); open.pop(); ... with the heap
PopHeap ==
    /\ pc = "loop" /\ open # <<>> /\ tie = "heap"
    /\ Pop(HeapTop(open), HeapPop(open))

\* the same with a queue that may yield any element of smallest f
PopAny ==
    /\ pc = "loop" /\ open # <<>> /\ tie = "any"
    /\ \E i \in 1 .. Len(open) :
          /\ IsTop(open, i)
          /\ Pop(open[i], RemoveAt(open, i))

\* the while loop ends on the empty queue
Exhausted ==
    /\ pc = "loop" /\ open = <<>>
    /\ pc' = "endrun"
    /\ UNCHANGED <<tie, folder, entries, reading, graphs, gi, run, totalNodesExpanded, totalSteps, pathCost,
                   open, dist, closed, nodesExpanded, steps, cur, ni, out, pushed,
                   expandedSeq>>

\* mutant: newG <= dist[nbr], and no test of closed
ImprovesOrEqual(newG, nbr) == newG <= dist[nbr]

\* mutant: no comparison with dist[nbr]
ImprovesUnclosed(newG, nbr) == ~closed[nbr]

\* the relaxation test: newG < dist[nbr] && !closed[nbr]
Improves(newG, nbr) == newG < dist[nbr] /\ ~closed[nbr]

\* one pass of the loop over the neighbours of cur.node
ExamineNeighbor ==
    /\ pc = "nbrs"
    /\ LET adj  == graph.adjacencyList[cur.node]
           nbr  == adj[ni][1]
           w    == adj[ni][2]
           newG == cur.g + w
       IN  /\ IF Improves(newG, nbr)
              THEN /\ dist' = [dist EXCEPT ![nbr] = newG]
                   /\ open' = Push(open, MakeState(nbr, newG))
                   /\ pushed' = Append(pushed, MakeState(nbr, newG))
              ELSE UNCHANGED <<dist, open, pushed>>
           /\ ni' = ni + 1
           /\ pc' = IF ni < Len(adj) THEN "nbrs" ELSE "loop"
    /\ UNCHANGED <<tie, folder, entries, reading, graphs, gi, run, totalNodesExpanded, totalSteps, pathCost,
                   closed, nodesExpanded, steps, cur, out, expandedSeq>>

\* mutant: no sentinel
PathCostOfDist(d) == d

\* dist[goal] != infinity ? dist[goal] : -1
PathCostOf(d) == IF d # Infinity THEN d ELSE (-1) * Scale

\* mutant: total = x
AddTotalAssign(total, x) == x

\* total += x
AddTotal(total, x) == total + x

\* the end of one run: the totals, and the path cost of the first run
EndRun ==
    /\ pc = "endrun"
    /\ totalNodesExpanded' = AddTotal(totalNodesExpanded, nodesExpanded)
    /\ totalSteps' = AddTotal(totalSteps, steps)
    /\ pathCost' = IF run = 0 THEN PathCostOf(dist[goal]) ELSE pathCost
    /\ run' = run + 1
    /\ pc' = "run"
    /\ UNCHANGED <<tie, folder, entries, reading, graphs, gi, open, dist, closed, nodesExpanded, steps, cur,
                   ni, out, pushed, expandedSeq>>

\* the averages, as the fractions total / NUM_RUNS, and the printed record
Report ==
    /\ pc = "run" /\ run >= NUM_RUNS
    /\ out' = Append(out, [avgNodesExpanded |-> <<totalNodesExpanded, NUM_RUNS>>,
                           avgSteps         |-> <<totalSteps, NUM_RUNS>>,
                           pathCost         |-> pathCost])
    /\ gi' = gi + 1
    /\ pc' = "graph"
    /\ UNCHANGED <<tie, folder, entries, reading, graphs, run, totalNodesExpanded, totalSteps, pathCost,
                   open, dist, closed, nodesExpanded, steps, cur, ni, pushed,
                   expandedSeq>>


\* ---------------------------------------------------------- specifications
\* main from the head of its loop over the graphs, with the heap of the
\* library.  The folders read: without a graph; the triangle; a graph with
\* start and goal that are nodes or not, or a graph without edges, before the
\* triangle; a scenario twice; and a graph after its copy with the zero
\* heuristic, the graph a scenario, the shortcut, a 3-node graph or the two
\* branches
Init ==
    \/ InitOf(0, <<>>, "heap")
    \/ InitOf(0, <<GraphData(Triangle)>>, "heap")
    \/ \E d \in Misdirected \cup {Isolated(n) : n \in 1 .. MaxIsolated} :
          InitOf(0, <<GraphData(d), GraphData(Triangle)>>, "heap")
    \/ \E d \in Scenarios : InitOf(0, <<GraphData(d), GraphData(d)>>, "heap")
    \/ \E d \in Scenarios \cup {Shortcut} : InitOf(0, Folder(d, TRUE), "heap")
    \/ InitGraphs(3, {<<1, 0>>}, Pairs(3), {2, 3, 5}, 0 .. 2, {FALSE}, TRUE, "heap")
    \/ InitGraphs(5, {<<1, 0>>}, BranchPairs, {2}, {4}, {FALSE}, TRUE, "heap")

Next ==
    \/ NoGraphs
    \/ ProcessGraph
    \/ Finish
    \/ BeginRun(NUM_RUNS)
    \/ StartOutOfRange(NUM_RUNS)
    \/ PopHeap
    \/ Exhausted
    \/ ExamineNeighbor
    \/ EndRun
    \/ Report

Spec == Init /\ [][Next]_vars

\* the first RunsChecked runs on one graph, with the heap or with a queue that
\* may yield any State of smallest f.  The graphs: the scenarios, the pair
\* with start and goal that are nodes or not, the graphs without edges, every
\* 3-node graph with weights 0, 1.0 and 2.5, the 3-node graphs with weights
\* -1.0 and 1.0, and the 4-node graphs with weights 1.0 and 2.5 and no edge
\* from start to goal
InitTie ==
    \E t \in {"heap", "any"} :
        \/ \E d \in Scenarios \cup Misdirected \cup {Isolated(n) : n \in 1 .. MaxIsolated} :
              InitOf(0, Folder(d, FALSE), t)
        \/ InitGraphs(3, Points, Pairs(3), {0, 2, 5}, 0 .. 2, BOOLEAN, FALSE, t)
        \/ InitGraphs(3, {}, Pairs(3), {-2, 2}, 0 .. 2, {FALSE}, FALSE, t)
        \/ InitGraphs(4, {<<1, 0>>}, DiamondPairs, {2, 5}, {3}, {FALSE}, FALSE, t)

NextTie ==
    \/ ProcessGraph
    \/ BeginRun(RunsChecked)
    \/ StartOutOfRange(RunsChecked)
    \/ PopHeap
    \/ PopAny
    \/ Exhausted
    \/ ExamineNeighbor
    \/ EndRun

SpecTie == InitTie /\ [][NextTie]_vars

\* main is one thread: while it has a next step it takes it
SpecTieFair == InitTie /\ [][NextTie]_vars /\ WF_vars(NextTie)

\* main from its entry to the end of its loop over the folder (line 96): no
\* folder that can be opened, or a folder of up to MaxEntries entries, each
\* an entry that cannot be opened or one of GraphFiles; Spec goes on from
\* there
InitRead ==
    \E f \in BOOLEAN, n \in 0 .. MaxEntries :
        /\ ~f => n = 0
        /\ tie = "heap"
        /\ folder = f
        /\ entries = n /\ reading = <<>>
        /\ graphs = <<>>
        /\ gi = 1
        /\ pc = "begin"
        /\ run = 0 /\ totalNodesExpanded = 0 /\ totalSteps = 0 /\ pathCost = 0
        /\ out = <<>>
        /\ NoSearch

NextRead ==
    \/ OpenFolder
    \/ FolderThrows
    \/ OpenFails
    \/ \E file \in GraphFiles : ReadHeader(file)
    \/ \E file \in GraphFiles : ResizeThrows(file)
    \/ ReadEdge
    \/ EdgeOutOfRange
    \/ ReadsIndeterminate
    \/ ReturnGraph

SpecRead == InitRead /\ [][NextRead]_vars

\* what readGraphFromFile returns for the file written for d is GraphData(d):
\* an invariant of SpecRead
ReadIsGraphData ==
    \A d \in Scenarios \cup {Empty, Pair} :
        (pc = "edges" /\ reading.file = File(d) /\ reading.i >= reading.numEdges)
            => reading.graph = GraphData(d)

\* ------------------------------------------------------------- references
\* the number of adjacency entries of g: 2E for E edge lines
RECURSIVE SumLen(_, _)
SumLen(adj, n) == IF n < 0 THEN 0 ELSE Len(adj[n]) + SumLen(adj, n - 1)

AdjEntries(g) == SumLen(g.adjacencyList, g.numNodes - 1)

MinOf(S) == CHOOSE x \in S : \A y \in S : x <= y

\* one round of relaxation of every adjacency entry
RelaxAll(g, d) ==
    [n \in Nodes(g.numNodes) |->
        MinOf({d[n]} \cup
              UNION { { d[u] + g.adjacencyList[u][i][2] :
                          i \in { j \in 1 .. Len(g.adjacencyList[u]) :
                                    g.adjacencyList[u][j][1] = n } } :
                      u \in { v \in Nodes(g.numNodes) : d[v] # Infinity } })]

RECURSIVE RelaxRounds(_, _, _)
RelaxRounds(g, d, k) ==
    IF k = 0 THEN d
    ELSE LET e == RelaxAll(g, d)
         IN  IF e = d THEN d ELSE RelaxRounds(g, e, k - 1)

\* the shortest-path distance from src to every node of g, by exhaustive
\* relaxation (Bellman-Ford); Infinity where there is no path
TrueDist(g, src) ==
    RelaxRounds(g, [[n \in Nodes(g.numNodes) |-> Infinity] EXCEPT ![src] = 0],
                g.numNodes - 1)

\* h(u) <= w + h(v) for every adjacency entry (v, w) of u
Consistent(g) ==
    \A u \in Nodes(g.numNodes) : \A i \in 1 .. Len(g.adjacencyList[u]) :
        ~FGreater(FVal(0, heuristic(g, u)),
                  FVal(g.adjacencyList[u][i][2], heuristic(g, g.adjacencyList[u][i][1])))

\* h(n) is at most the distance of n to the goal
Admissible(g) ==
    LET d == TrueDist(g, g.goalNode)
    IN  \A n \in Nodes(g.numNodes) :
            d[n] # Infinity => heuristic(g, n) <= d[n] * d[n]

\* a node other than the goal whose f on a shortest path, d(n) + h(n), is the
\* distance of the goal
CriticalTie(g) ==
    LET d == TrueDist(g, g.startNode)
    IN  \E n \in Nodes(g.numNodes) \ {g.goalNode} :
            /\ d[n] # Infinity /\ d[g.goalNode] # Infinity
            /\ d[n] <= d[g.goalNode]
            /\ heuristic(g, n) = (d[g.goalNode] - d[n]) * (d[g.goalNode] - d[n])

InSearch == pc \in {"loop", "nbrs", "endrun"}

Range(q) == {q[i] : i \in 1 .. Len(q)}

\* the g of the States of q for node n
GsOf(q, n) == {q[i].g : i \in {j \in 1 .. Len(q) : q[j].node = n}}

\* ------------------------------------------------------------------ claims
NonNegative(g) ==
    \A u \in Nodes(g.numNodes) : \A i \in 1 .. Len(g.adjacencyList[u]) :
        g.adjacencyList[u][i][2] >= 0

\* the run has ended and its result is held by the harness
RunDone == pc = "run" /\ run >= 1

\* the graph of the triangle: edges 0-1 1.0, 1-2 1.0, 0-2 2.5, start 0, goal 2
TriangleGraph ==
    [numNodes      |-> 3,
     adjacencyList |-> [n \in 0 .. 2 |->
                          << <<<<1, 2>>, <<2, 5>>>>,
                             <<<<0, 2>>, <<2, 2>>>>,
                             <<<<1, 2>>, <<0, 5>>>> >>[n + 1]],
     coordinates   |-> [n \in 0 .. 2 |-> <<<<0, 0>>, <<1, 0>>, <<1, 1>>>>[n + 1]],
     startNode     |-> 0,
     goalNode      |-> 2]

\* C1: with non-negative weights and a consistent (hence admissible)
\* heuristic, dist[goal] at the exit of the loop is the shortest-path distance
\* of the reference, under either order of equal f, and the path cost kept
\* from the first run is that distance (-1 when there is none); on the
\* triangle it is 2.0 and not 2.5.
C1_PathCostIsShortest ==
    /\ (pc = "endrun" /\ NonNegative(graph) /\ Consistent(graph))
          => dist[goal] = TrueDist(graph, start)[goal]
    /\ (RunDone /\ NonNegative(graph) /\ Consistent(graph))
          => pathCost = PathCostOf(TrueDist(graph, start)[goal])
    /\ (RunDone /\ graph = TriangleGraph)
          => pathCost = 2 * Scale /\ 2 * pathCost # 5 * Scale

\* the triangle searched with a queue of any order: the goal was pushed at
\* 2.5 and again at 2.0, and the search ended at 2.0
C1_Witness ==
    /\ pc = "endrun" /\ tie = "any"
    /\ graph = TriangleGraph
    /\ GsOf(pushed, goal) = {5, 4}
    /\ dist[goal] = 2 * Scale

Unreachable(g) == TrueDist(g, g.startNode)[g.goalNode] = Infinity

\* what C2 says of a search in progress: when there is no path from start to
\* goal, dist[goal] stays infinite, the goal is never the non-stale current
\* node and the loop ends on the empty queue
GoalNeverReached ==
    InSearch =>
        \/ /\ dist[goal] = Infinity
           /\ \A e \in Range(expandedSeq) : e.node # goal
           /\ pc = "endrun" => open = <<>>
        \/ ~Unreachable(graph)

\* C2, as claimed: when there is no path from start to goal, the loop ends on
\* the empty queue, the goal is never the non-stale current node, dist[goal]
\* stays infinite and the path cost is -1; and the path cost is -1 only then.
\* (Not so with the library heap on two nodes joined by an edge of -1.0: the
\* goal is reached at the distance -1.0.)
C2_Original ==
    /\ GoalNeverReached
    /\ RunDone => (pathCost = (-1) * Scale <=> Unreachable(graph))

\* C2, amended: when there is no path from start to goal, the loop ends on
\* the empty queue, the goal is never the non-stale current node, dist[goal]
\* stays infinite and the path cost is -1; dist[goal] is infinite at the exit
\* of the loop only then, and with non-negative weights the path cost is -1
\* only then (a goal reached at the distance -1.0, over an edge of negative
\* weight, has the path cost -1 too).
C2_Unreachable ==
    /\ GoalNeverReached
    /\ pc = "endrun" => (dist[goal] = Infinity <=> Unreachable(graph))
    /\ RunDone =>
          /\ Unreachable(graph) => pathCost = (-1) * Scale
          /\ NonNegative(graph) => (pathCost = (-1) * Scale <=> Unreachable(graph))

\* a search that expanded two nodes, emptied the queue and reported -1
C2_Witness ==
    /\ RunDone /\ pathCost = (-1) * Scale
    /\ Unreachable(graph) /\ start # goal
    /\ nodesExpanded >= 2 /\ open = <<>>

\* in one search the States pushed number at most 1 plus the adjacency
\* entries; the queue holds the States pushed and not yet popped, and every
\* pass of the loop pops one
PushesBounded ==
    InSearch =>
        /\ Len(pushed) <= 1 + AdjEntries(graph)
        /\ Len(open) + steps = Len(pushed)
        /\ Len(open) <= 1 + AdjEntries(graph)
        /\ steps <= 1 + AdjEntries(graph)
        /\ pc = "nbrs" => ni \in 1 .. Len(graph.adjacencyList[cur.node])

\* C3: for every graph and heuristic one search terminates, the while loop
\* is left in the end, and the States pushed in the run number at most 1 plus
\* the adjacency entries (1 + 2E), which bounds the size of the queue too.
C3_Terminates ==
    /\ []PushesBounded
    /\ (pc = "loop") ~> (pc = "endrun")

\* a triangle with a zero-weight edge, searched in three passes, one node
\* pushed twice
C3_Witness ==
    /\ pc = "endrun"
    /\ steps >= 3 /\ Len(pushed) >= 4
    /\ N = 3 /\ AdjEntries(graph) = 6
    /\ \E u \in Nodes(N) : \E i \in 1 .. Len(graph.adjacencyList[u]) :
          graph.adjacencyList[u][i][2] = 0

\* the outputs of the run that ended last are those of every run before it
SameAsFirstRun ==
    /\ totalNodesExpanded = run * nodesExpanded
    /\ totalSteps = run * steps

\* C4: every run on the same graph has the path cost, the nodes expanded and
\* the steps of the first, and two graphs of the folder that are the same are
\* reported the same: the three outputs are a function of the graph, start
\* and goal alone (the order of equal f in the queue of the program is one).
C4_Deterministic ==
    /\ RunDone => SameAsFirstRun /\ pathCost = PathCostOf(dist[goal])
    /\ \A i, j \in 1 .. Len(out) : graphs[i] = graphs[j] => out[i] = out[j]

\* the triangle read twice and reported twice, after 100 runs of three steps
C4_Witness ==
    /\ Len(out) = 2 /\ graphs[1] = graphs[2]
    /\ graphs[1] = TriangleGraph
    /\ out[1] = out[2]
    /\ out[2].avgSteps = <<3 * NUM_RUNS, NUM_RUNS>>
    /\ out[2].pathCost = 2 * Scale

\* C6: when start = goal the search ends at its first pop, before the node is
\* closed or a neighbour examined: path cost 0, one node expanded, one step,
\* and nothing pushed but the first State.
C6_StartIsGoal ==
    (pc \in {"run", "loop", "nbrs", "endrun"} /\ start = goal) =>
        /\ pc # "nbrs"
        /\ pc = "endrun" =>
              /\ steps = 1 /\ nodesExpanded = 1
              /\ pushed = <<StartState>> /\ open = <<>>
              /\ \A n \in Nodes(N) : ~closed[n]
              /\ dist[goal] = 0
        /\ RunDone => pathCost = 0 /\ totalSteps = run /\ totalNodesExpanded = run

\* a search from the goal itself, the start having neighbours
C6_Witness ==
    /\ pc = "endrun" /\ start = goal
    /\ Len(graph.adjacencyList[start]) >= 2
    /\ steps = 1

\* the neighbour the loop over the adjacency list is at, and its weight
Nbr == graph.adjacencyList[cur.node][ni][1]
W   == graph.adjacencyList[cur.node][ni][2]

\* what holds of the nodes expanded so far in this run
ExpandedOnce ==
    /\ nodesExpanded = Len(expandedSeq)
    /\ nodesExpanded <= N
    /\ \A i, j \in 1 .. Len(expandedSeq) :
          expandedSeq[i].node = expandedSeq[j].node => i = j
    /\ \A n \in Nodes(N) : closed[n] => \E e \in Range(expandedSeq) : e.node = n
    /\ \A e \in Range(expandedSeq) :
          closed[e.node] =>
              /\ dist[e.node] = e.g
              /\ \A i \in 1 .. Len(open) : open[i].node = e.node => Stale(open[i])

\* what one step does to the nodes that are closed
ClosedStep ==
    /\ \A n \in Nodes(N) :
          closed[n] =>
              /\ closed'[n]
              /\ dist'[n] = dist[n]
              /\ GsOf(pushed', n) = GsOf(pushed, n)
    /\ (pc = "loop" /\ open # <<>> /\ closed[cur'.node]) =>
          /\ steps' = steps + 1
          /\ pc' = "loop"
          /\ UNCHANGED <<nodesExpanded, dist, closed, pushed, expandedSeq>>

\* C8: in one search a node is the non-stale current node at most once, so
\* nodesExpanded counts distinct nodes and is at most numNodes; a closed node
\* stays closed, no State is pushed for it again and its dist does not change;
\* a State left in the queue for it is stale, and popping it adds to steps
\* and to nothing else.
C8_ExpandedOnce ==
    [][(pc \in {"loop", "nbrs"}) => (ExpandedOnce' /\ ClosedStep)]_vars

\* a stale State of a closed node has been popped: more steps than nodes
C8_Witness ==
    /\ pc = "loop" /\ steps > nodesExpanded
    /\ closed[cur.node] /\ Stale(cur)
    /\ open # <<>>

\* C9: in every state of one search dist[node] is the least g of the States
\* pushed for node so far, and infinite exactly when none was pushed; each
\* State pushed for a node has a smaller g than those pushed for it before,
\* so dist never increases, and at most one State of the queue per node is
\* not stale.
C9_DistIsLeastPushed ==
    InSearch =>
        /\ \A n \in Nodes(N) :
              /\ dist[n] = Infinity <=> GsOf(pushed, n) = {}
              /\ dist[n] # Infinity => dist[n] = MinOf(GsOf(pushed, n))
              /\ \A i, j \in 1 .. Len(open) :
                    (open[i].node = n /\ open[j].node = n
                        /\ ~Stale(open[i]) /\ ~Stale(open[j])) => i = j
        /\ \A i, j \in 1 .. Len(pushed) :
              (i < j /\ pushed[i].node = pushed[j].node) => pushed[j].g < pushed[i].g

\* a node pushed twice, its dist the smaller g, both States still in the queue
C9_Witness ==
    /\ InSearch
    /\ \E n \in Nodes(N) :
          /\ Cardinality(GsOf(pushed, n)) = 2
          /\ Cardinality(GsOf(open, n)) = 2
          /\ dist[n] = MinOf(GsOf(pushed, n))

\* C10: with non-negative weights and a consistent heuristic, every closed
\* node has the shortest-path distance from start as its dist, and a closed
\* neighbour is never reached at a smaller cost: newG >= dist[nbr].
C10_ClosedIsFinal ==
    (InSearch /\ NonNegative(graph) /\ Consistent(graph)) =>
        /\ \/ \A n \in Nodes(N) : ~closed[n]
           \/ \A n \in Nodes(N) : closed[n] => dist[n] = TrueDist(graph, start)[n]
        /\ (pc = "nbrs" /\ closed[Nbr]) => cur.g + W >= dist[Nbr]

\* the neighbour loop is at a closed node other than the start, reached at a
\* larger cost than its dist, when equal f came in any order
C10_Witness ==
    /\ pc = "nbrs" /\ tie = "any"
    /\ Consistent(graph)
    /\ closed[Nbr] /\ Nbr # start
    /\ cur.g + W > dist[Nbr]

\* the folder held a file after its copy with the zero heuristic, and both
\* have been reported
ZeroPair ==
    /\ Len(graphs) = 2 /\ Len(out) = 2
    /\ graphs[1] = [graphs[2] EXCEPT
                      !.coordinates = [n \in Nodes(graphs[2].numNodes) |-> <<0, 0>>]]

\* the path cost the reference gives for g
RefPathCost(g) == PathCostOf(TrueDist(g, g.startNode)[g.goalNode])

\* C5, as claimed: the search with the zero heuristic reports the path cost
\* of the reference, and expands at least as many nodes as the search of the
\* same graph with an admissible heuristic.
C5_Original ==
    (ZeroPair /\ NonNegative(graphs[2]) /\ Admissible(graphs[2])) =>
        /\ out[1].pathCost = RefPathCost(graphs[2])
        /\ out[1].avgNodesExpanded[1] >= out[2].avgNodesExpanded[1]

\* C5, amended: the search with the zero heuristic reports the path cost of
\* the reference; it expands at least as many nodes as the search with a
\* consistent heuristic when no node other than the goal has d(n) + h(n)
\* equal to the distance of the goal.
C5_ZeroHeuristic ==
    (ZeroPair /\ NonNegative(graphs[2])) =>
        /\ out[1].pathCost = RefPathCost(graphs[2])
        /\ (Consistent(graphs[2]) /\ ~CriticalTie(graphs[2])) =>
              out[1].avgNodesExpanded[1] >= out[2].avgNodesExpanded[1]

\* a consistent heuristic, no node tied with the goal, and the search with
\* the zero heuristic expanded more nodes
C5_Witness ==
    /\ ZeroPair
    /\ Consistent(graphs[2]) /\ ~CriticalTie(graphs[2])
    /\ out[1].pathCost = out[2].pathCost
    /\ out[1].avgNodesExpanded[1] > out[2].avgNodesExpanded[1]

\* C7: the harness makes NUM_RUNS runs per graph, each from a fresh search
\* state; after any number of runs the totals are that number times the
\* nodes expanded and the steps of one run, so the averages reported are
\* those of one run, and the path cost kept from the first run is that of
\* every run.
C7_Harness ==
    /\ run <= NUM_RUNS
    /\ Len(out) = (IF pc = "done" /\ graphs = <<>> THEN 0 ELSE gi - 1)
    /\ (pc = "loop" /\ steps = 0) =>
          /\ dist = [n \in Nodes(N) |-> IF n = start THEN 0 ELSE Infinity]
          /\ closed = [n \in Nodes(N) |-> FALSE]
          /\ open = <<StartState>>
          /\ nodesExpanded = 0
    /\ RunDone => SameAsFirstRun /\ pathCost = PathCostOf(dist[goal])
    /\ pc = "graph" =>
          /\ run = NUM_RUNS
          /\ out[gi - 1] =
                [avgNodesExpanded |-> <<NUM_RUNS * nodesExpanded, NUM_RUNS>>,
                 avgSteps         |-> <<NUM_RUNS * steps, NUM_RUNS>>,
                 pathCost         |-> PathCostOf(dist[graphs[gi - 1].goalNode])]

\* the second graph of a folder reported after NUM_RUNS runs of four steps
C7_Witness ==
    /\ pc = "graph" /\ gi = 3
    /\ run = NUM_RUNS
    /\ steps = 4 /\ totalSteps = 4 * NUM_RUNS
    /\ out[2].avgSteps = <<400, 100>>

====
